---------------------------- MODULE Spec2Model ----------------------------
(***************************************************************************)
(* State-machine model of the two badge games of disobey2026badge-rust:    *)
(*   src/examples/logo_breakout.rs  (Logo Breakout)                        *)
(*   src/examples/snake.rs          (Snake)                                *)
(* Each game is one embassy task (game_task) that owns a Game value and    *)
(* runs  title -> play loop -> game over -> title.  One action of the      *)
(* model is one pass of that task between two suspension points.           *)
(***************************************************************************)
EXTENDS Integers, Sequences, FiniteSets

(***************************************************************************)
(* Bounds of the exploration (not program constants).                      *)
(***************************************************************************)
\* Spec: paddle-button samples (left or right held) the player makes per session.
MaxMoves == 2
\* SpecRally: how many paddle steps from the centre the player aims before launching.
MaxAim == 4
\* SpecSnake: loop iterations of a snake session.
MaxTicks == 15
\* The bar lengths BAR_COUNT considered for the LED bank: 1 .. MaxBarCount.
MaxBarCount == 6
\* SpecPaddle: how far outside the paddle's contact zone the ball is placed.
ProbeMargin == 4
\* SpecFood: iterations of spawn_food's loop followed in one call.
MaxDraws == 3500
\* SpecFood: the call starts with the generator as 0 .. MaxStart earlier
\* iterations of the loop have left it.
MaxStart == 2

(***************************************************************************)
(* logo_breakout.rs: constants                                             *)
(***************************************************************************)
W == 320
H == 170
COLS == 21
ROWS == 5

CELL_X == <<0, 15, 31, 46, 62, 77, 93, 108, 123, 139, 154, 170, 185, 200, 216, 231, 247, 262, 278, 293, 308>>
\* CELL_W with every cell 2 px wider: the gaps between columns shrink to 1-2 px
CELL_W_Wide == <<14, 14, 13, 14, 13, 14, 13, 14, 14, 13, 14, 13, 14, 14, 13, 14, 13, 14, 13, 14, 12>>
CELL_W == <<12, 12, 11, 12, 11, 12, 11, 12, 12, 11, 12, 11, 12, 12, 11, 12, 11, 12, 11, 12, 12>>
CELL_Y == <<0, 15, 31, 46, 61>>
CELL_H == <<12, 12, 11, 12, 12>>

ERASE_X == <<0, 13, 29, 44, 60, 75, 91, 106, 121, 137, 152, 168, 183, 198, 214, 229, 245, 260, 276, 291, 306>>
ERASE_W == <<13, 16, 15, 16, 15, 16, 15, 15, 16, 15, 16, 15, 15, 16, 15, 16, 15, 16, 15, 15, 14>>
ERASE_Y == <<0, 13, 29, 44, 59>>
ERASE_H == <<13, 16, 15, 15, 14>>

PADDLE_W == 40
PADDLE_H == 6
PADDLE_Y == H - 24
PADDLE_SPEED == 6
BALL_SIZE == 4
LED_FLASH_TICKS == 6

\* u16 arithmetic of the score
U16 == 65536

\* Per-cell palette index: 0=dark, 1=light, 2=medium, 3=accent
LOGO_COLORS ==
  << <<0,0,0,0,0,0,0,0,0,0,0,0,0,0,0,0,0,0,0,0,0>>,
     <<2,1,1,1,1,2,1,1,1,1,1,1,1,1,2,2,1,2,2,1,2>>,
     <<3,1,1,1,1,1,3,1,1,1,1,3,1,1,3,3,1,3,3,1,3>>,
     <<2,1,1,1,1,2,1,1,2,1,1,1,1,1,1,1,1,1,1,1,2>>,
     <<0,0,0,0,0,0,0,0,0,0,0,0,0,0,0,0,0,0,0,0,0>> >>
PALETTE == <<"COLOR_DARK", "COLOR_LIGHT", "COLOR_MEDIUM", "COLOR_ACCENT">>

\* Rows and columns are indexed from 0 as in the source; the tuples above from 1.
RowIdx == 0 .. (ROWS - 1)
ColIdx == 0 .. (COLS - 1)

Abs(x) == IF x < 0 THEN -x ELSE x
Max(a, b) == IF a >= b THEN a ELSE b
Min(a, b) == IF a <= b THEN a ELSE b

brick_color(row, col) == PALETTE[LOGO_COLORS[row + 1][col + 1] + 1]

VARIABLES
  phase,    \* where game_task of logo_breakout.rs is suspended: "Title", "Playing", "GameOver"
  game,     \* logo_breakout.rs `game: Game`
  prev,     \* logo_breakout.rs `prev: PrevState`
  drawn,    \* the draw operations of the latest draw_initial / draw_frame pass
  screen,   \* which picture the display holds: "title", "game", "win", "lose"
  moves,    \* paddle-button samples taken by the player in this session
  display,  \* what the display of logo_breakout.rs shows (see the display surface below)
  leds,     \* the LED bank of logo_breakout.rs, for each bar length the board may have
  event,    \* what game_task of logo_breakout.rs last consumed: "boot", "press_a", "levels",
            \* "tick", "place"
  sphase,   \* where game_task of snake.rs is suspended: "Title", "Playing", "GameOver"
  sgame,    \* snake.rs `game: Game`
  sdrawn,   \* the draw operations of the latest snake.rs draw_initial / draw_frame pass
  sticks,   \* loop iterations of snake.rs run in this session
  sleds,    \* the LED bank of snake.rs, for each bar length the board may have
  sevent,   \* what game_task of snake.rs last consumed: "boot", "press_a", "levels", "tick"
  frng,     \* snake.rs spawn_food run on its own: the generator state `self.rng`
  fseen,    \* the candidate cells that run of the loop has drawn so far
  fdraws    \* the iterations that run of the loop has made

bvars == <<phase, game, prev, drawn, screen, moves, display, leds, event>>
svars == <<sphase, sgame, sdrawn, sticks, sleds, sevent>>
fvars == <<frng, fseen, fdraws>>
vars == <<phase, game, prev, drawn, screen, moves, display, leds, event,
          sphase, sgame, sdrawn, sticks, sleds, sevent, frng, fseen, fdraws>>

(***************************************************************************)
(* logo_breakout.rs: Game                                                  *)
(***************************************************************************)
GameNew ==
  [ paddle_x  |-> (W \div 2) - (PADDLE_W \div 2),
    ball_x    |-> W \div 2,
    ball_y    |-> PADDLE_Y - BALL_SIZE - 1,
    ball_dx   |-> 2,
    ball_dy   |-> -2,
    bricks    |-> [row \in RowIdx |-> [col \in ColIdx |-> TRUE]],
    score     |-> 0,
    lives     |-> 3,
    launched  |-> FALSE,
    game_over |-> FALSE,
    led_flash |-> 0 ]

\* reset_ball putting the ball back without resetting its velocity
reset_ball_KeepVelocity(g) ==
  [g EXCEPT !.ball_x = g.paddle_x + (PADDLE_W \div 2),
            !.ball_y = PADDLE_Y - BALL_SIZE - 1,
            !.launched = FALSE]

reset_ball(g) ==
  [g EXCEPT !.ball_x = g.paddle_x + (PADDLE_W \div 2),
            !.ball_y = PADDLE_Y - BALL_SIZE - 1,
            !.ball_dx = 2,
            !.ball_dy = -2,
            !.launched = FALSE]

bricks_remaining(g) ==
  Cardinality({rc \in RowIdx \X ColIdx : g.bricks[rc[1]][rc[2]]})

\* FlashDecay left out: the countdown stays where the last brick hit put it
FlashDecay_Never(g) == g

\* tick, lines 168-170
FlashDecay(g) ==
  IF g.led_flash > 0 THEN [g EXCEPT !.led_flash = g.led_flash - 1] ELSE g

\* tick, lines 172-173
Integrate(g) ==
  [g EXCEPT !.ball_x = g.ball_x + g.ball_dx, !.ball_y = g.ball_y + g.ball_dy]

\* tick, lines 176-179
WallLeft(g) ==
  IF g.ball_x <= 0 THEN [g EXCEPT !.ball_x = 0, !.ball_dx = Abs(g.ball_dx)] ELSE g

\* tick, lines 180-183
WallRight(g) ==
  IF g.ball_x + BALL_SIZE >= W
  THEN [g EXCEPT !.ball_x = W - BALL_SIZE, !.ball_dx = -Abs(g.ball_dx)]
  ELSE g

\* WallTop with the clamp of ball_y left out
WallTop_NoClamp(g) ==
  IF g.ball_y <= 0 THEN [g EXCEPT !.ball_dy = Abs(g.ball_dy)] ELSE g

\* tick, lines 184-187
WallTop(g) ==
  IF g.ball_y <= 0 THEN [g EXCEPT !.ball_y = 0, !.ball_dy = Abs(g.ball_dy)] ELSE g

WallCollisions(g) == WallTop(WallRight(WallLeft(g)))

\* tick, line 190
BallFell(g) == g.ball_y + BALL_SIZE >= H

\* LoseLife testing `lives == 0` before the decrement instead of after it
LoseLife_TestBeforeDecrement(g) ==
  LET lives == IF g.lives > 0 THEN g.lives - 1 ELSE 0
      g1 == [g EXCEPT !.lives = lives]
  IN  IF g.lives = 0 THEN [g1 EXCEPT !.game_over = TRUE] ELSE reset_ball(g1)

\* tick, lines 191-197
LoseLife(g) ==
  LET lives == IF g.lives > 0 THEN g.lives - 1 ELSE 0   \* saturating_sub(1)
      g1 == [g EXCEPT !.lives = lives]
  IN  IF lives = 0 THEN [g1 EXCEPT !.game_over = TRUE] ELSE reset_ball(g1)

\* tick, lines 201-205
PaddleHit(g) ==
  /\ g.ball_dy > 0
  /\ g.ball_y + BALL_SIZE >= PADDLE_Y
  /\ g.ball_y + BALL_SIZE <= PADDLE_Y + PADDLE_H
  /\ g.ball_x + BALL_SIZE > g.paddle_x
  /\ g.ball_x < g.paddle_x + PADDLE_W

\* PaddleDeflect with the offset PADDLE_W / 3 itself counted to the left zone
PaddleDeflect_ThirdInclusive(g) ==
  LET hit_pos == g.ball_x + (BALL_SIZE \div 2) - g.paddle_x
      third == PADDLE_W \div 3
      dx == IF hit_pos <= third THEN -3
            ELSE IF hit_pos > third * 2 THEN 3
            ELSE IF g.ball_dx > 0 THEN 2 ELSE -2
  IN  [g EXCEPT !.ball_dy = -Abs(g.ball_dy), !.ball_dx = dx]

\* tick, lines 207-216
PaddleDeflect(g) ==
  LET hit_pos == g.ball_x + (BALL_SIZE \div 2) - g.paddle_x
      third == PADDLE_W \div 3
      dx == IF hit_pos < third THEN -3
            ELSE IF hit_pos > third * 2 THEN 3
            ELSE IF g.ball_dx > 0 THEN 2 ELSE -2
  IN  [g EXCEPT !.ball_dy = -Abs(g.ball_dy), !.ball_dx = dx]

PaddleCollision(g) == IF PaddleHit(g) THEN PaddleDeflect(g) ELSE g

\* Overlaps with >= and <= in place of > and <: touching edges count as a hit
Overlaps_NonStrict(bx, by, row, col) ==
  /\ bx + BALL_SIZE >= CELL_X[col + 1]
  /\ bx <= CELL_X[col + 1] + CELL_W[col + 1]
  /\ by + BALL_SIZE >= CELL_Y[row + 1]
  /\ by <= CELL_Y[row + 1] + CELL_H[row + 1]

\* tick, lines 228-231: the ball rectangle strictly overlaps the cell of (row, col)
Overlaps(bx, by, row, col) ==
  /\ bx + BALL_SIZE > CELL_X[col + 1]
  /\ bx < CELL_X[col + 1] + CELL_W[col + 1]
  /\ by + BALL_SIZE > CELL_Y[row + 1]
  /\ by < CELL_Y[row + 1] + CELL_H[row + 1]

\* position of (row, col) in the scan `for row in 0..ROWS { for col in 0..COLS`
ScanIndex(rc) == rc[1] * COLS + rc[2]

\* tick, lines 220-231: the alive bricks the ball overlaps
HitBricks(g) ==
  {rc \in RowIdx \X ColIdx :
      Overlaps(g.ball_x, g.ball_y, rc[1], rc[2]) /\ g.bricks[rc[1]][rc[2]]}

\* the brick at which the scan stops
FirstHit(g) ==
  CHOOSE rc \in HitBricks(g) : \A o \in HitBricks(g) : ScanIndex(rc) <= ScanIndex(o)

\* BrickScore with every brick worth as much as a top-row brick
BrickScore_Flat(row) == ROWS

\* BrickScore counting rows from the top instead of from the bottom
BrickScore_RowPlusOne(row) == row + 1

\* tick, line 234
BrickScore(row) == ROWS - row

\* Bounce with equal distances counted as a horizontal contact
Bounce_TieHorizontal(g, row, col) ==
  LET ball_cx == g.ball_x + (BALL_SIZE \div 2)
      ball_cy == g.ball_y + (BALL_SIZE \div 2)
      brick_cx == CELL_X[col + 1] + (CELL_W[col + 1] \div 2)
      brick_cy == CELL_Y[row + 1] + (CELL_H[row + 1] \div 2)
      dx == Abs(ball_cx - brick_cx)
      dy == Abs(ball_cy - brick_cy)
  IN  IF dx >= dy THEN [g EXCEPT !.ball_dx = -g.ball_dx]
                  ELSE [g EXCEPT !.ball_dy = -g.ball_dy]

\* tick, lines 238-250
Bounce(g, row, col) ==
  LET ball_cx == g.ball_x + (BALL_SIZE \div 2)
      ball_cy == g.ball_y + (BALL_SIZE \div 2)
      brick_cx == CELL_X[col + 1] + (CELL_W[col + 1] \div 2)
      brick_cy == CELL_Y[row + 1] + (CELL_H[row + 1] \div 2)
      dx == Abs(ball_cx - brick_cx)
      dy == Abs(ball_cy - brick_cy)
  IN  IF dx > dy THEN [g EXCEPT !.ball_dx = -g.ball_dx]
                 ELSE [g EXCEPT !.ball_dy = -g.ball_dy]

\* DestroyBrick without the end of the game on the last brick
DestroyBrick_NoWin(g, row, col) ==
  LET g1 == [g EXCEPT !.bricks[row][col] = FALSE,
                      !.score = (g.score + BrickScore(row)) % U16,
                      !.led_flash = LED_FLASH_TICKS]
  IN  Bounce(g1, row, col)

\* tick, lines 233-255
DestroyBrick(g, row, col) ==
  LET g1 == [g EXCEPT !.bricks[row][col] = FALSE,
                      !.score = (g.score + BrickScore(row)) % U16,
                      !.led_flash = LED_FLASH_TICKS]
      g2 == Bounce(g1, row, col)
  IN  IF bricks_remaining(g2) = 0 THEN [g2 EXCEPT !.game_over = TRUE] ELSE g2

\* tick, lines 220-258
BrickCollisions(g) ==
  IF HitBricks(g) = {} THEN g
  ELSE DestroyBrick(g, FirstHit(g)[1], FirstHit(g)[2])

\* tick returning early only when the game is over, not while the ball waits
Tick_OnlyGameOver(g) ==
  IF g.game_over THEN g
  ELSE LET moved == WallCollisions(Integrate(FlashDecay(g)))
       IN  IF BallFell(moved) THEN LoseLife(moved)
           ELSE BrickCollisions(PaddleCollision(moved))

\* Game::tick
Tick(g) ==
  IF g.game_over \/ ~g.launched THEN g
  ELSE LET moved == WallCollisions(Integrate(FlashDecay(g)))
       IN  IF BallFell(moved) THEN LoseLife(moved)
           ELSE BrickCollisions(PaddleCollision(moved))


(***************************************************************************)
(* logo_breakout.rs: rendering.  A render pass is the sequence of draw     *)
(* operations it sends to the display, in order.                           *)
(***************************************************************************)
Fill(x, y, w, h, color) ==
  [kind |-> "fill", x |-> x, y |-> y, w |-> w, h |-> h, color |-> color, text |-> <<>>]

TextOp(digits, x, y, color) ==
  [kind |-> "text", x |-> x, y |-> y, w |-> 0, h |-> 0, color |-> color, text |-> digits]

\* draw_logo: one overlay of the logo image, transparent pixels skipped
LogoOp ==
  [kind |-> "logo", x |-> 0, y |-> 0, w |-> 0, h |-> 0, color |-> "LOGO", text |-> <<>>]

\* format_u16: the decimal digits of n, most significant first
RECURSIVE RevDigits(_)
RevDigits(n) == IF n = 0 THEN <<>> ELSE <<n % 10>> \o RevDigits(n \div 10)

Reverse(s) == [j \in 1 .. Len(s) |-> s[Len(s) + 1 - j]]

format_u16(n) == IF n = 0 THEN <<0>> ELSE Reverse(RevDigits(n))

\* `for ... in ...` loops that draw: the operations in iteration order
RECURSIVE LifeOps(_, _)
LifeOps(i, lives) ==
  IF i >= lives THEN <<>>
  ELSE <<Fill(W - 12 - i * 10, (H - 14) + 2, 6, 6, "RED")>> \o LifeOps(i + 1, lives)

draw_hud(score, lives) ==
  LET hud_y == H - 14
  IN  <<Fill(0, hud_y, W, 14, "BLACK"), TextOp(format_u16(score), 4, hud_y + 10, "WHITE")>>
        \o LifeOps(0, lives)

\* the cells of S in the scan order `for row in 0..ROWS { for col in 0..COLS`
RECURSIVE ScanRange(_, _, _)
ScanRange(lo, hi, S) ==
  IF lo = hi
  THEN LET rc == <<lo \div COLS, lo % COLS>>
       IN  IF rc \in S THEN <<rc>> ELSE <<>>
  ELSE LET mid == (lo + hi) \div 2
       IN  ScanRange(lo, mid, S) \o ScanRange(mid + 1, hi, S)

InScanOrder(S) == IF S = {} THEN <<>> ELSE ScanRange(0, ROWS * COLS - 1, S)

PaddleRect(paddle_x, color) == Fill(paddle_x, PADDLE_Y, PADDLE_W, PADDLE_H, color)
BallRect(ball_x, ball_y, color) == Fill(ball_x, ball_y, BALL_SIZE, BALL_SIZE, color)

draw_initial(g) ==
  LET alive == InScanOrder({rc \in RowIdx \X ColIdx : g.bricks[rc[1]][rc[2]]})
      cell(row, col) ==
        Fill(CELL_X[col + 1], CELL_Y[row + 1], CELL_W[col + 1], CELL_H[row + 1],
             brick_color(row, col))
  IN  <<Fill(0, 0, W, H, "BLACK")>>
        \o [j \in 1 .. Len(alive) |-> cell(alive[j][1], alive[j][2])]
        \o <<LogoOp, PaddleRect(g.paddle_x, "WHITE"), BallRect(g.ball_x, g.ball_y, "WHITE")>>
        \o draw_hud(g.score, g.lives)

\* HudDue without the test of the old ball rectangle
HudDue_ScoreOrLives(g, p) == p.score # g.score \/ p.lives # g.lives

\* draw_frame, line 401
HudDue(g, p) ==
  p.ball_y + BALL_SIZE > H - 14 \/ p.score # g.score \/ p.lives # g.lives

\* draw_frame erasing the old paddle whether or not it moved
draw_frame_AlwaysErasePaddle(g, p) ==
  LET gone == IF p.bricks = g.bricks THEN <<>>
              ELSE InScanOrder({rc \in RowIdx \X ColIdx :
                                   p.bricks[rc[1]][rc[2]] /\ ~g.bricks[rc[1]][rc[2]]})
      slot(row, col) ==
        Fill(ERASE_X[col + 1], ERASE_Y[row + 1], ERASE_W[col + 1], ERASE_H[row + 1], "BLACK")
  IN  <<BallRect(p.ball_x, p.ball_y, "BLACK"), PaddleRect(p.paddle_x, "BLACK")>>
        \o [j \in 1 .. Len(gone) |-> slot(gone[j][1], gone[j][2])]
        \o <<PaddleRect(g.paddle_x, "WHITE"), BallRect(g.ball_x, g.ball_y, "WHITE")>>
        \o (IF HudDue(g, p) THEN draw_hud(g.score, g.lives) ELSE <<>>)

draw_frame(g, p) ==
  LET gone == IF p.bricks = g.bricks THEN <<>>
              ELSE InScanOrder({rc \in RowIdx \X ColIdx :
                                   p.bricks[rc[1]][rc[2]] /\ ~g.bricks[rc[1]][rc[2]]})
      slot(row, col) ==
        Fill(ERASE_X[col + 1], ERASE_Y[row + 1], ERASE_W[col + 1], ERASE_H[row + 1], "BLACK")
  IN  <<BallRect(p.ball_x, p.ball_y, "BLACK")>>
        \o (IF p.paddle_x # g.paddle_x THEN <<PaddleRect(p.paddle_x, "BLACK")>> ELSE <<>>)
        \o [j \in 1 .. Len(gone) |-> slot(gone[j][1], gone[j][2])]
        \o <<PaddleRect(g.paddle_x, "WHITE"), BallRect(g.ball_x, g.ball_y, "WHITE")>>
        \o (IF HudDue(g, p) THEN draw_hud(g.score, g.lives) ELSE <<>>)

\* the PrevState the loop keeps of a Game (lines 521-528 and 552-557)
PrevOf(g) ==
  [ ball_x |-> g.ball_x, ball_y |-> g.ball_y, paddle_x |-> g.paddle_x,
    score |-> g.score, lives |-> g.lives, bricks |-> g.bricks ]

(***************************************************************************)
(* The display surface as the render passes leave it.  What is kept of the *)
(* picture is what the game draws by rectangles:                           *)
(*   full   : the cells <<row, col>> whose visible rectangle is shown whole;*)
(*   partial: the cells of which some pixels are shown and others have     *)
(*            been painted over;                                           *)
(*   white  : the white pixels of the playfield (paddle and ball), as the  *)
(*            horizontal runs they form;                                   *)
(*   hud    : the score text and the life squares the status bar shows,    *)
(*            and whether a black fill from outside draw_hud has reached   *)
(*            into the bar since the bar was last drawn.                   *)
(***************************************************************************)
HUD_Y == H - 14
BrickBottom == CELL_Y[ROWS] + CELL_H[ROWS]

BlankHud == [text |-> <<>>, squares |-> {}, erased |-> FALSE]

BlankDisplay ==
  [full |-> {},
   partial |-> {},
   white |-> {},
   hud |-> BlankHud]

\* the rectangle of op reaches into the box (x, y, w, h) / holds all of it
Touches(op, x, y, w, h) ==
  op.x < x + w /\ op.x + op.w > x /\ op.y < y + h /\ op.y + op.h > y

Covers(op, x, y, w, h) ==
  op.x <= x /\ op.x + op.w >= x + w /\ op.y <= y /\ op.y + op.h >= y + h

IsBrickColour(color) == \E k \in 1 .. Len(PALETTE) : PALETTE[k] = color

CellTouched(op, rc) ==
  Touches(op, CELL_X[rc[2] + 1], CELL_Y[rc[1] + 1], CELL_W[rc[2] + 1], CELL_H[rc[1] + 1])

CellCovered(op, rc) ==
  Covers(op, CELL_X[rc[2] + 1], CELL_Y[rc[1] + 1], CELL_W[rc[2] + 1], CELL_H[rc[1] + 1])

\* a fill in a brick colour shows the cells it holds whole; any fill leaves in
\* part the cells it only reaches into, and a fill in another colour removes
\* the cells it holds whole
PaintFull(full, op) ==
  IF op.y >= BrickBottom THEN full
  ELSE {rc \in RowIdx \X ColIdx :
          IF CellTouched(op, rc) THEN IsBrickColour(op.color) /\ CellCovered(op, rc)
          ELSE rc \in full}

PaintPartial(full, partial, op) ==
  IF op.y >= BrickBottom THEN partial
  ELSE {rc \in RowIdx \X ColIdx :
          IF CellTouched(op, rc)
          THEN ~CellCovered(op, rc) /\ (IsBrickColour(op.color) \/ rc \in full \/ rc \in partial)
          ELSE rc \in partial}

\* the white pixels are kept as the maximal horizontal runs <<y, x0, x1>>
\* (row y, columns x0 .. x1) they form
SetMin(S) == CHOOSE m \in S : \A k \in S : m <= k
SetMax(S) == CHOOSE m \in S : \A k \in S : m >= k

\* a fill in another colour cuts its columns out of the runs of its rows
EraseRuns(white, op) ==
  UNION { IF r[1] < op.y \/ r[1] >= op.y + op.h \/ r[3] < op.x \/ r[2] >= op.x + op.w
          THEN {r}
          ELSE (IF r[2] < op.x THEN {<<r[1], r[2], op.x - 1>>} ELSE {})
                 \cup (IF r[3] >= op.x + op.w THEN {<<r[1], op.x + op.w, r[3]>>} ELSE {})
          : r \in white }

\* a white fill, clipped to the surface, adds a run to each of its rows and
\* joins it with the runs it meets
DrawRuns(white, op) ==
  LET a == Max(op.x, 0)
      b == Min(op.x + op.w - 1, W - 1)
      rows == Max(op.y, 0) .. Min(op.y + op.h - 1, H - 1)
      met == {r \in white : r[1] \in rows /\ r[2] <= b + 1 /\ r[3] >= a - 1}
      run(y) == <<y, SetMin({a} \cup {r[2] : r \in {q \in met : q[1] = y}}),
                     SetMax({b} \cup {r[3] : r \in {q \in met : q[1] = y}})>>
  IN  IF a > b THEN white
      ELSE (white \ met) \cup {run(y) : y \in rows}

PaintWhite(white, op) ==
  IF op.color = "WHITE" THEN DrawRuns(white, op)
  ELSE IF white = {} THEN {}
  ELSE EraseRuns(white, op)

\* the life square draw_hud paints at index i, and the box the score text
\* can occupy (FONT_6X10, at most five digits, baseline HUD_Y + 10)
SquareX(i) == W - 12 - i * 10
TextBox == [x |-> 4, y |-> HUD_Y + 1, w |-> 30, h |-> 13]

PaintHud(hud, op) ==
  IF op.y + op.h <= HUD_Y THEN hud
  ELSE IF op.color = "BLACK" /\ Covers(op, 0, HUD_Y, W, 14) THEN BlankHud
  ELSE IF op.color = "RED" /\ op.y = HUD_Y + 2 /\ op.w = 6 /\ op.h = 6
       THEN [hud EXCEPT !.squares = hud.squares \cup {(W - 12 - op.x) \div 10}]
  ELSE [text |-> IF Touches(op, TextBox.x, TextBox.y, TextBox.w, TextBox.h)
                 THEN <<>> ELSE hud.text,
        squares |-> {i \in hud.squares : ~Touches(op, SquareX(i), HUD_Y + 2, 6, 6)},
        erased |-> hud.erased \/ op.color = "BLACK"]

PaintOp(d, op) ==
  IF op.kind = "fill"
  THEN [full |-> PaintFull(d.full, op),
        partial |-> PaintPartial(d.full, d.partial, op),
        white |-> PaintWhite(d.white, op),
        hud |-> PaintHud(d.hud, op)]
  ELSE IF op.kind = "text" THEN [d EXCEPT !.hud.text = op.text]
  ELSE d   \* the logo overlay recolours pixels of the cells and the gaps only

\* the surface after the operations ops[lo], ..., ops[hi] in order: the first
\* half of the run is painted, then the second half onto the result.  Each
\* run starts from the surface d as it then is (d is taken once, as x).
RECURSIVE PaintRange(_, _, _, _)
PaintRange(d, ops, lo, hi) ==
  CHOOSE r \in { IF lo > hi THEN x
                 ELSE IF lo = hi THEN PaintOp(x, ops[lo])
                 ELSE PaintRange(PaintRange(x, ops, lo, (lo + hi) \div 2),
                                 ops, (lo + hi) \div 2 + 1, hi) : x \in {d} } : TRUE

Paint(d, ops) == PaintRange(d, ops, 1, Len(ops))

(***************************************************************************)
(* The LED bank.  BAR_COUNT, the length of each of the two bars, is set by *)
(* the board crate and not by the games; the bank is kept for every bar    *)
(* length n of BarCounts.  A bank is the colours of the left bar, of the   *)
(* right bar and of the LEDs outside the bars, which only fill and clear   *)
(* reach.                                                                  *)
(***************************************************************************)
BarCounts == 1 .. MaxBarCount

OFF == <<0, 0, 0>>

\* Leds::fill and Leds::clear
LedsFill(n, color) ==
  [left |-> [i \in 1 .. n |-> color], right |-> [i \in 1 .. n |-> color], other |-> color]

LedsClear(n) == LedsFill(n, OFF)

\* Leds::set_left_bar and Leds::set_right_bar
SetBars(bank, left, right) == [bank EXCEPT !.left = left, !.right = right]

\* update_leds with the lit count rounded down
update_leds_Floor(bank, g, n) ==
  IF g.led_flash > 0
  THEN LET brightness == (g.led_flash * 4) % 256
       IN  LedsFill(n, <<brightness, brightness, brightness>>)
  ELSE LET remaining == bricks_remaining(g)
           total == ROWS * COLS
           lit == (remaining * 5) \div total
           bar == [i \in 1 .. n |-> IF i <= Min(lit, n) THEN <<0, 4, 2>> ELSE OFF]
       IN  SetBars(bank, bar, bar)

\* logo_breakout.rs update_leds, with BAR_COUNT = n
update_leds(bank, g, n) ==
  IF g.led_flash > 0
  THEN LET brightness == (g.led_flash * 4) % 256
       IN  LedsFill(n, <<brightness, brightness, brightness>>)
  ELSE LET remaining == bricks_remaining(g)
           total == ROWS * COLS
           lit == (remaining * 5 + total - 1) \div total
           bar == [i \in 1 .. n |-> IF i <= Min(lit, n) THEN <<0, 4, 2>> ELSE OFF]
       IN  SetBars(bank, bar, bar)

AllCleared == [n \in BarCounts |-> LedsClear(n)]

(***************************************************************************)
(* logo_breakout.rs: game_task                                             *)
(***************************************************************************)
\* SampleLeft without `.max(0)`
SampleLeft_NoClamp(g, left) ==
  IF left
  THEN LET px == g.paddle_x - PADDLE_SPEED
       IN  [g EXCEPT !.paddle_x = px,
                     !.ball_x = IF ~g.launched THEN px + (PADDLE_W \div 2) ELSE g.ball_x]
  ELSE g

\* lines 532-537
SampleLeft(g, left) ==
  IF left
  THEN LET px == Max(g.paddle_x - PADDLE_SPEED, 0)
       IN  [g EXCEPT !.paddle_x = px,
                     !.ball_x = IF ~g.launched THEN px + (PADDLE_W \div 2) ELSE g.ball_x]
  ELSE g

\* lines 538-543
SampleRight(g, right) ==
  IF right
  THEN LET px == Min(g.paddle_x + PADDLE_SPEED, W - PADDLE_W)
       IN  [g EXCEPT !.paddle_x = px,
                     !.ball_x = IF ~g.launched THEN px + (PADDLE_W \div 2) ELSE g.ball_x]
  ELSE g

\* lines 545-547
SampleA(g, a) == IF ~g.launched /\ a THEN [g EXCEPT !.launched = TRUE] ELSE g

\* lines 532-547: the button levels read at the top of a loop iteration
SampleButtons(g, left, right, a) == SampleA(SampleRight(SampleLeft(g, left), right), a)

\* StartGame with the game constructed once, outside the session loop
StartGame_StaleGame ==
  /\ phase = "Title"
  /\ phase' = "Playing"
  /\ game' = game
  /\ drawn' = draw_initial(game)
  /\ prev' = PrevOf(game)
  /\ screen' = "game"
  /\ moves' = 0
  /\ \E ops \in {draw_initial(game)} : display' = Paint(display, ops)
  /\ event' = "press_a"
  /\ UNCHANGED leds
  /\ UNCHANGED <<svars, fvars>>

\* lines 512-528: the title screen is up; a debounced press of A starts a session
StartGame ==
  /\ phase = "Title"
  /\ phase' = "Playing"
  /\ game' = GameNew
  /\ drawn' = draw_initial(GameNew)
  /\ prev' = PrevOf(GameNew)
  /\ screen' = "game"
  /\ moves' = 0
  /\ \E ops \in {draw_initial(GameNew)} : display' = Paint(display, ops)
  /\ event' = "press_a"
  /\ UNCHANGED leds
  /\ UNCHANGED <<svars, fvars>>

\* LoopIteration with the snapshot overwritten before the render pass
LoopIteration_SnapshotFirst(left, right, a) ==
  /\ phase = "Playing"
  /\ UNCHANGED <<svars, fvars>>
  /\ \E g \in {Tick(SampleButtons(game, left, right, a))} :
         /\ game' = g
         /\ \E ops \in {draw_frame(g, PrevOf(g))} :
                /\ drawn' = ops
                /\ display' = Paint(display, ops)
         /\ prev' = PrevOf(g)
         /\ leds' = [n \in BarCounts |-> update_leds(leds[n], g, n)]
         /\ event' = "levels"
         /\ IF g.game_over
            THEN /\ phase' = "GameOver"
                 /\ screen' = IF bricks_remaining(g) = 0 THEN "win" ELSE "lose"
            ELSE /\ phase' = "Playing"
                 /\ screen' = "game"

\* lines 532-585: one iteration of the play loop with the sampled button levels
LoopIteration(left, right, a) ==
  /\ phase = "Playing"
  /\ UNCHANGED <<svars, fvars>>
  /\ \E g \in {Tick(SampleButtons(game, left, right, a))} :
         /\ game' = g
         /\ \E ops \in {draw_frame(g, prev)} :
                /\ drawn' = ops
                /\ display' = Paint(display, ops)
         /\ prev' = PrevOf(g)
         /\ leds' = [n \in BarCounts |-> update_leds(leds[n], g, n)]
         /\ event' = "levels"
         /\ IF g.game_over
            THEN /\ phase' = "GameOver"
                 /\ screen' = IF bricks_remaining(g) = 0 THEN "win" ELSE "lose"
            ELSE /\ phase' = "Playing"
                 /\ screen' = "game"

\* lines 562-583 and 512-516: the result banner and the LED flashes, which end
\* with the bank cleared; A acknowledges the result; the title screen is drawn
Restart ==
  /\ phase = "GameOver"
  /\ phase' = "Title"
  /\ screen' = "title"
  /\ display' = Paint(display, <<Fill(0, 0, W, H, "BLACK")>>)
  /\ leds' = AllCleared
  /\ event' = "press_a"
  /\ UNCHANGED <<game, prev, drawn, moves>>
  /\ UNCHANGED <<svars, fvars>>

(***************************************************************************)
(* snake.rs: constants, Rng, Pos, Direction                                *)
(***************************************************************************)
GRID_SIZE == 10
GRID_W == W \div GRID_SIZE
GRID_H == H \div GRID_SIZE

\* Rng(u32): the state is the 32 bits of the word, bit i weighing 2^i, so that
\* shifts drop the bits that leave the word as u32 arithmetic does.
BitIdx == 0 .. 31

\* the seed 0xDEADBEEF of Game::new, as its two 16-bit halves
SEED_HI == 57005
SEED_LO == 48879

BitsOf(hi, lo) ==
  [i \in BitIdx |-> IF i < 16 THEN (lo \div (2 ^ i)) % 2 ELSE (hi \div (2 ^ (i - 16))) % 2]

Xor(a, b) == [i \in BitIdx |-> (a[i] + b[i]) % 2]
Shl(a, k) == [i \in BitIdx |-> IF i >= k THEN a[i - k] ELSE 0]
Shr(a, k) == [i \in BitIdx |-> IF i + k <= 31 THEN a[i + k] ELSE 0]

\* Rng::next: the new state, which is also the value returned
RngNext(r) ==
  LET a == Xor(r, Shl(r, 13))
      b == Xor(a, Shr(a, 17))
  IN  Xor(b, Shl(b, 5))

\* the word made of bits i..31 of r, modulo m
RECURSIVE BitsMod(_, _, _)
BitsMod(r, i, m) == IF i > 31 THEN 0 ELSE (2 * BitsMod(r, i + 1, m) + r[i]) % m

\* Rng::range: the value returned for a state already advanced by next()
RangeValue(r, max) == BitsMod(r, 0, max)

Pos(x, y) == [x |-> x, y |-> y]

\* is_opposite with the two horizontal pairs left out
is_opposite_VerticalOnly(self, other) ==
  \/ self = "Up" /\ other = "Down"
  \/ self = "Down" /\ other = "Up"

is_opposite(self, other) ==
  \/ self = "Up" /\ other = "Down"
  \/ self = "Down" /\ other = "Up"
  \/ self = "Left" /\ other = "Right"
  \/ self = "Right" /\ other = "Left"

Cells(body) == {body[i] : i \in 1 .. Len(body)}

(***************************************************************************)
(* snake.rs: Game                                                          *)
(***************************************************************************)
\* spawn_food taking the first cell drawn, on the snake or not
spawn_food_NoCheck(g) ==
  LET rx == RngNext(g.rng)
      ry == RngNext(rx)
  IN  [g EXCEPT !.food = Pos(RangeValue(rx, GRID_W), RangeValue(ry, GRID_H)), !.rng = ry]

\* spawn_food: draw x then y until the cell is off the snake
RECURSIVE spawn_food(_)
spawn_food(g) ==
  LET rx == RngNext(g.rng)
      ry == RngNext(rx)
      pos == Pos(RangeValue(rx, GRID_W), RangeValue(ry, GRID_H))
  IN  IF pos \notin Cells(g.snake)
      THEN [g EXCEPT !.food = pos, !.rng = ry]
      ELSE spawn_food([g EXCEPT !.rng = ry])

\* Candidate with both coordinates taken from the same generator value
Candidate_SameWord(rx, ry) == Pos(RangeValue(ry, GRID_W), RangeValue(ry, GRID_H))

\* lines 126-128: the candidate cell made of two successive generator values
Candidate(rx, ry) == Pos(RangeValue(rx, GRID_W), RangeValue(ry, GRID_H))

GridCells == {Pos(x, y) : x \in 0 .. GRID_W - 1, y \in 0 .. GRID_H - 1}

\* the generator state after k iterations of spawn_food's loop
RECURSIVE SkipPairs(_, _)
SkipPairs(r, k) == IF k = 0 THEN r ELSE SkipPairs(RngNext(RngNext(r)), k - 1)

SnakeNew ==
  LET start_x == GRID_W \div 2
      start_y == GRID_H \div 2
  IN  spawn_food(
        [ snake          |-> [i \in 1 .. 4 |-> Pos(start_x - (i - 1), start_y)],
          direction      |-> "Right",
          next_direction |-> "Right",
          food           |-> Pos(0, 0),
          score          |-> 0,
          game_over      |-> FALSE,
          rng            |-> BitsOf(SEED_HI, SEED_LO) ])

\* tick, lines 150-167
MoveHead(head, direction) ==
  CASE direction = "Up"    -> Pos(head.x, head.y - 1)
    [] direction = "Down"  -> Pos(head.x, head.y + 1)
    [] direction = "Left"  -> Pos(head.x - 1, head.y)
    [] direction = "Right" -> Pos(head.x + 1, head.y)

\* tick, line 170
HitsWall(p) == p.x < 0 \/ p.x >= GRID_W \/ p.y < 0 \/ p.y >= GRID_H

\* the self-collision test skipping the tail, which is about to move away
HitsSelf_IgnoreTail(g, p) == p \in Cells(SubSeq(g.snake, 1, Len(g.snake) - 1))

\* the self-collision test left out
HitsSelf_Never(g, p) == FALSE

\* tick, line 176
HitsSelf(g, p) == p \in Cells(g.snake)

\* tick, lines 144-146
AdoptDirection(g) ==
  IF ~is_opposite(g.next_direction, g.direction)
  THEN [g EXCEPT !.direction = g.next_direction]
  ELSE g

\* Advance dropping the tail also on the tick that eats
Advance_AlwaysPop(g, new_head) ==
  LET grown == [g EXCEPT !.snake = <<new_head>> \o g.snake]
      cut == [grown EXCEPT !.snake = SubSeq(grown.snake, 1, Len(grown.snake) - 1)]
  IN  IF new_head = g.food
      THEN spawn_food([cut EXCEPT !.score = (g.score + 1) % U16])
      ELSE cut

\* tick, lines 182-191
Advance(g, new_head) ==
  LET grown == [g EXCEPT !.snake = <<new_head>> \o g.snake]
  IN  IF new_head = g.food
      THEN spawn_food([grown EXCEPT !.score = (g.score + 1) % U16])
      ELSE [grown EXCEPT !.snake = SubSeq(grown.snake, 1, Len(grown.snake) - 1)]

\* Game::tick
SnakeTick(g) ==
  IF g.game_over THEN g
  ELSE LET g1 == AdoptDirection(g)
           new_head == MoveHead(g1.snake[1], g1.direction)
       IN  IF HitsWall(new_head) THEN [g1 EXCEPT !.game_over = TRUE]
           ELSE IF HitsSelf(g1, new_head) THEN [g1 EXCEPT !.game_over = TRUE]
           ELSE Advance(g1, new_head)

(***************************************************************************)
(* snake.rs: rendering and game_task                                       *)
(***************************************************************************)
CellRect(p, color) ==
  Fill(p.x * GRID_SIZE, p.y * GRID_SIZE, GRID_SIZE - 1, GRID_SIZE - 1, color)

\* draw_initial and draw_frame of snake.rs issue the same operations
snake_draw_frame(g) ==
  <<Fill(0, 0, W, H, "BLACK")>>
    \o [i \in 1 .. Len(g.snake) |-> CellRect(g.snake[i], "GREEN")]
    \o <<CellRect(g.food, "RED"), TextOp(format_u16(g.score), 4, 10, "WHITE")>>

\* snake.rs update_leds, with BAR_COUNT = n
snake_update_leds(bank, g, n) ==
  IF g.game_over THEN LedsFill(n, <<20, 0, 0>>)
  ELSE LET lit == Min(g.score, n)
           half == n \div 2
           left == [i \in 1 .. n |-> IF i - 1 < lit /\ i - 1 < half THEN <<0, 10, 0>> ELSE OFF]
           right == [i \in 1 .. n |->
                       IF i - 1 + half < lit THEN <<0, 10, 0>> ELSE OFF]
       IN  SetBars(bank, left, right)

\* lines 378-386: the d-pad levels read at the top of a loop iteration
PollDpad(g, up, down, left, right) ==
  IF up THEN [g EXCEPT !.next_direction = "Up"]
  ELSE IF down THEN [g EXCEPT !.next_direction = "Down"]
  ELSE IF left THEN [g EXCEPT !.next_direction = "Left"]
  ELSE IF right THEN [g EXCEPT !.next_direction = "Right"]
  ELSE g

\* lines 364-374
SnakeStart ==
  /\ sphase = "Title"
  /\ sphase' = "Playing"
  /\ sgame' = SnakeNew
  /\ sdrawn' = snake_draw_frame(SnakeNew)
  /\ sticks' = 0
  /\ sevent' = "press_a"
  /\ UNCHANGED sleds
  /\ UNCHANGED <<bvars, fvars>>

\* lines 378-412
SnakeLoop(up, down, left, right) ==
  /\ sphase = "Playing"
  /\ sticks < MaxTicks
  /\ \E g \in {SnakeTick(PollDpad(sgame, up, down, left, right))} :
       /\ sgame' = g
       /\ sdrawn' = snake_draw_frame(g)
       /\ sleds' = [n \in BarCounts |-> snake_update_leds(sleds[n], g, n)]
       /\ sphase' = IF g.game_over THEN "GameOver" ELSE "Playing"
  /\ sticks' = sticks + 1
  /\ sevent' = "levels"
  /\ UNCHANGED <<bvars, fvars>>

\* lines 408-409 and 364-369
SnakeRestart ==
  /\ sphase = "GameOver"
  /\ sphase' = "Title"
  /\ sleds' = AllCleared
  /\ sevent' = "press_a"
  /\ UNCHANGED <<sgame, sdrawn, sticks>>
  /\ UNCHANGED <<bvars, fvars>>

SnakeInit ==
  /\ sphase = "Title"
  /\ sgame = SnakeNew
  /\ sdrawn = <<>>
  /\ sticks = 0
  /\ sleds = AllCleared
  /\ sevent = "boot"

SnakeStep ==
  \E up \in BOOLEAN, down \in BOOLEAN, left \in BOOLEAN, right \in BOOLEAN :
    SnakeLoop(up, down, left, right)

BreakoutInit ==
  /\ phase = "Title"
  /\ game = GameNew
  /\ prev = PrevOf(GameNew)
  /\ drawn = <<>>
  /\ screen = "title"
  /\ moves = 0
  /\ display = BlankDisplay
  /\ leds = AllCleared
  /\ event = "boot"

(***************************************************************************)
(* The player.  Spec: any button levels at every sample, with at most      *)
(* MaxMoves samples per session in which a paddle button is held.          *)
(***************************************************************************)
\* line 545: the level of A is read only while the ball waits on the paddle
ALevels(g) == IF g.launched THEN {FALSE} ELSE BOOLEAN

PlayStep ==
  \E left \in BOOLEAN, right \in BOOLEAN, a \in ALevels(game) :
    /\ (left \/ right) => moves < MaxMoves
    /\ LoopIteration(left, right, a)
    /\ moves' = IF left \/ right THEN moves + 1 ELSE moves

\* no spawn_food call is being followed
FoodIdle ==
  /\ frng = BitsOf(SEED_HI, SEED_LO)
  /\ fseen = {}
  /\ fdraws = 0

Init == BreakoutInit /\ SnakeInit /\ FoodIdle
Next == StartGame \/ PlayStep \/ Restart
Spec == Init /\ [][Next]_vars

(***************************************************************************)
(* SpecAim: the player works the paddle buttons and never presses A, so    *)
(* the ball rides on the paddle over its whole range.                      *)
(***************************************************************************)
AimStep ==
  \E left \in BOOLEAN, right \in BOOLEAN :
    /\ LoopIteration(left, right, FALSE)
    /\ UNCHANGED moves

NextAim == StartGame \/ AimStep
SpecAim == Init /\ [][NextAim]_vars

(***************************************************************************)
(* SpecRally: the player aims within MaxAim paddle steps of the centre,    *)
(* launches, and from then on keeps the paddle under the ball: a button is *)
(* held whenever the ball centre is outside the paddle's middle third.     *)
(***************************************************************************)
TrackLo(g) == g.ball_x + (BALL_SIZE \div 2) - 2 * (PADDLE_W \div 3)
TrackHi(g) == TrackLo(g) + 2 * PADDLE_SPEED
TrackLeft(g) == g.paddle_x > TrackHi(g)
TrackRight(g) == g.paddle_x < TrackLo(g)

InAimRange(g) == Abs(g.paddle_x - GameNew.paddle_x) <= MaxAim * PADDLE_SPEED

RallyStep ==
  /\ UNCHANGED moves
  /\ \/ /\ ~game.launched
        /\ \E left \in BOOLEAN, right \in BOOLEAN, a \in BOOLEAN :
             /\ InAimRange(SampleButtons(game, left, right, a))
             /\ LoopIteration(left, right, a)
     \/ /\ game.launched
        /\ LoopIteration(TrackLeft(game), TrackRight(game), FALSE)

NextRally == StartGame \/ RallyStep \/ Restart
SpecRally == Init /\ [][NextRally]_vars

(***************************************************************************)
(* SpecSnake: snake.rs with any d-pad levels at every sample, for sessions *)
(* of at most MaxTicks loop iterations.                                    *)
(***************************************************************************)
NextSnake == SnakeStart \/ SnakeStep \/ SnakeRestart
SpecSnake == Init /\ [][NextSnake]_vars

(***************************************************************************)
(* SpecCtl: both games on their boards, each in the hands of a player who  *)
(* lets it run: the Breakout player only presses A and never moves the     *)
(* paddle (the ball is lost three times), the Snake player steers with up  *)
(* alone (the snake ends in the top wall).                                 *)
(***************************************************************************)
CtlPlay ==
  /\ UNCHANGED moves
  /\ \E a \in BOOLEAN : LoopIteration(FALSE, FALSE, a)

CtlSnakeStep == \E up \in BOOLEAN : SnakeLoop(up, FALSE, FALSE, FALSE)

NextCtl ==
  StartGame \/ CtlPlay \/ Restart \/ SnakeStart \/ CtlSnakeStep \/ SnakeRestart

SpecCtl == Init /\ [][NextCtl]_vars

(***************************************************************************)
(* SpecIdle: Game::tick of both games called on states it must leave       *)
(* alone.  The Breakout player only presses A; once that session is lost   *)
(* the Snake player steers with up alone.  In between, tick is applied to  *)
(* the Breakout state whenever it is over or the ball is not launched, and *)
(* to the Snake state whenever it is over.                                 *)
(***************************************************************************)
BreakoutIdleTick ==
  /\ game.game_over \/ ~game.launched
  /\ game' = Tick(game)
  /\ event' = "tick"
  /\ UNCHANGED <<phase, prev, drawn, screen, moves, display, leds>>
  /\ UNCHANGED <<svars, fvars>>

SnakeIdleTick ==
  /\ sgame.game_over
  /\ sgame' = SnakeTick(sgame)
  /\ sevent' = "tick"
  /\ UNCHANGED <<sphase, sdrawn, sticks, sleds>>
  /\ UNCHANGED <<bvars, fvars>>

IdleSnakeStart == phase = "GameOver" /\ SnakeStart

IdleSnakeStep == phase = "GameOver" /\ CtlSnakeStep

NextIdle ==
  \/ StartGame \/ CtlPlay \/ BreakoutIdleTick
  \/ IdleSnakeStart \/ IdleSnakeStep \/ SnakeIdleTick

SpecIdle == Init /\ [][NextIdle]_vars

(***************************************************************************)
(* SpecPaddle: one loop iteration, no button held, from a mid-play state   *)
(* with the ball anywhere within ProbeMargin pixels of the paddle's        *)
(* contact zone, with every velocity the game produces.                    *)
(***************************************************************************)
ProbeXs(g) == (g.paddle_x - BALL_SIZE - ProbeMargin) .. (g.paddle_x + PADDLE_W + ProbeMargin)
ProbeYs == (PADDLE_Y - BALL_SIZE - ProbeMargin) .. (PADDLE_Y + PADDLE_H - BALL_SIZE + ProbeMargin)
ProbeDxs == {-3, -2, 2, 3}
ProbeDys == {-2, 2}

\* the state of play the iteration starts from, as the previous pass rendered it
ProbePlace ==
  /\ phase = "Playing" /\ event = "press_a"
  /\ \E bx \in ProbeXs(game), by \in ProbeYs, dx \in ProbeDxs, dy \in ProbeDys :
       \E g \in {[game EXCEPT !.ball_x = bx, !.ball_y = by, !.ball_dx = dx,
                               !.ball_dy = dy, !.launched = TRUE]} :
          game' = g /\ prev' = PrevOf(g)
  /\ event' = "place"
  /\ UNCHANGED <<phase, drawn, screen, moves, display, leds>>
  /\ UNCHANGED <<svars, fvars>>

ProbeStep ==
  /\ event = "place"
  /\ LoopIteration(FALSE, FALSE, FALSE)
  /\ UNCHANGED moves

NextPaddle == StartGame \/ ProbePlace \/ ProbeStep

SpecPaddle == Init /\ [][NextPaddle]_vars

(***************************************************************************)
(* SpecFood: the loop of spawn_food followed iteration by iteration, from   *)
(* the generator state Game::new starts with or one that earlier            *)
(* iterations have left.  The body is not fixed: fseen collects the         *)
(* candidates drawn, so the loop run on a body B has returned as soon as    *)
(* fseen holds a cell outside B.                                            *)
(***************************************************************************)
FoodInit ==
  /\ \E k \in 0 .. MaxStart : frng = SkipPairs(BitsOf(SEED_HI, SEED_LO), k)
  /\ fseen = {}
  /\ fdraws = 0

\* lines 125-135: one iteration of the loop
FoodDraw ==
  /\ fseen # GridCells
  /\ fdraws < MaxDraws
  /\ \E rx \in {RngNext(frng)} :
       \E ry \in {RngNext(rx)} :
          /\ fseen' = fseen \cup {Candidate(rx, ry)}
          /\ frng' = ry
  /\ fdraws' = fdraws + 1
  /\ UNCHANGED <<bvars, svars>>

InitFood == BreakoutInit /\ SnakeInit /\ FoodInit
NextFood == FoodDraw
SpecFood == InitFood /\ [][NextFood]_vars
\* the loop has no await: once entered it runs on
SpecFoodLive == SpecFood /\ WF_vars(FoodDraw)

(***************************************************************************)
(* Properties                                                              *)
(***************************************************************************)

\* C1 (Spec): in every state, so after every Game::tick, the ball position
\* satisfies 0 <= ball_x <= W - BALL_SIZE and 0 <= ball_y < H.
C1_BallInBounds ==
  /\ 0 <= game.ball_x /\ game.ball_x <= W - BALL_SIZE
  /\ 0 <= game.ball_y /\ game.ball_y < H

\* the ball has been clamped at the top wall and sent back down
C1_Witness == game.launched /\ game.ball_y = 0 /\ game.ball_dy > 0

\* C2 (SpecSnake): while game_over is false the body holds no two equal cells.
C2_NoDuplicateSegments ==
  ~sgame.game_over => Cardinality(Cells(sgame.snake)) = Len(sgame.snake)

Adjacent(p, q) == Abs(p.x - q.x) + Abs(p.y - q.y) = 1

\* a live snake that has grown and whose head lies against its own body
\* (beyond the neck), so that one more turn would run into it
C2_Witness ==
  /\ ~sgame.game_over
  /\ Len(sgame.snake) > 4
  /\ \E i \in 3 .. Len(sgame.snake) : Adjacent(sgame.snake[1], sgame.snake[i])

\* C3 (SpecSnake): in every state the food cell is inside the grid and is not
\* a body segment.
C3_FoodOffSnake ==
  /\ 0 <= sgame.food.x /\ sgame.food.x < GRID_W
  /\ 0 <= sgame.food.y /\ sgame.food.y < GRID_H
  /\ sgame.food \notin Cells(sgame.snake)

\* the cell spawn_food draws first when the first food is eaten
SecondDraw ==
  LET rx == RngNext(SnakeNew.rng)
      ry == RngNext(rx)
  IN  [pos |-> Pos(RangeValue(rx, GRID_W), RangeValue(ry, GRID_H)), rng |-> ry]

\* the first food has been eaten with the snake lying on the cell drawn first,
\* and spawn_food has drawn again
C3_Witness ==
  /\ sgame.score = 1
  /\ SecondDraw.pos \in Cells(sgame.snake)
  /\ sgame.rng = RngNext(RngNext(SecondDraw.rng))

\* C4 (SpecSnake): a tick whose new head is the food cell lengthens the body
\* by exactly 1 and adds exactly 1 to the score; every other tick, a tick
\* that ends the game included, leaves both unchanged.
C4_Step ==
  LET new_head == MoveHead(sgame.snake[1], sgame'.direction)
  IN  IF ~sgame.game_over /\ new_head = sgame.food
      THEN /\ Len(sgame'.snake) = Len(sgame.snake) + 1
           /\ sgame'.score = sgame.score + 1
      ELSE /\ Len(sgame'.snake) = Len(sgame.snake)
           /\ sgame'.score = sgame.score

C4_GrowthOnlyOnFood == [][sphase = "Playing" => C4_Step]_vars

\* the first food has just been eaten
C4_Witness ==
  /\ sgame.score = 1
  /\ Len(sgame.snake) = 5
  /\ sgame.rng # SnakeNew.rng

\* C5 (SpecSnake): when the buffered direction is the reverse of the current
\* one, a tick keeps the current direction and, if the step is valid, moves
\* the head one cell in it; the direction after a tick is never the reverse
\* of the direction before it.
Reverse_of(d) ==
  CASE d = "Up" -> "Down" [] d = "Down" -> "Up" [] d = "Left" -> "Right" [] d = "Right" -> "Left"

C5_Step ==
  /\ sgame'.direction # Reverse_of(sgame.direction)
  /\ (~sgame.game_over /\ sgame'.next_direction = Reverse_of(sgame.direction)) =>
       /\ sgame'.direction = sgame.direction
       /\ ~sgame'.game_over =>
            sgame'.snake[1] = MoveHead(sgame.snake[1], sgame.direction)

C5_ReversalRejected == [][sphase = "Playing" => C5_Step]_vars

\* a tick has run with a reversal buffered, and the snake moved on
C5_Witness ==
  /\ sticks > 0
  /\ ~sgame.game_over
  /\ sgame.next_direction = Reverse_of(sgame.direction)

\* C6 (SpecAim): for any left/right samples, both held at once included,
\* 0 <= paddle_x <= W - PADDLE_W.
C6_PaddleInBounds == 0 <= game.paddle_x /\ game.paddle_x <= W - PADDLE_W

\* left was held with the paddle 2 px from the edge: the pass erased the
\* paddle at 2 and the paddle now stands at 0
C6_Witness ==
  /\ game.paddle_x = 0
  /\ Len(drawn) > 1
  /\ drawn[2] = PaddleRect(2, "BLACK")

\* C7 (Spec): lives = 0 implies game_over.
C7_NoLivesIsGameOver == game.lives = 0 => game.game_over

\* the third ball has been lost
C7_Witness == game.lives = 0 /\ phase = "GameOver" /\ screen = "lose"

\* C8 (Spec): within a session a tick leaves the brick grid unchanged or
\* turns exactly one brick from alive to dead, the first in row-major scan
\* order among the alive bricks the ball strictly overlaps (and it leaves the
\* grid unchanged only when the ball overlaps no alive brick); no brick turns
\* from dead to alive.
StrictOverlap(bx, by, row, col) ==
  /\ bx + BALL_SIZE > CELL_X[col + 1] /\ bx < CELL_X[col + 1] + CELL_W[col + 1]
  /\ by + BALL_SIZE > CELL_Y[row + 1] /\ by < CELL_Y[row + 1] + CELL_H[row + 1]

C8_Step ==
  LET cells == RowIdx \X ColIdx
      died == {rc \in cells : game.bricks[rc[1]][rc[2]] /\ ~game'.bricks[rc[1]][rc[2]]}
      born == {rc \in cells : ~game.bricks[rc[1]][rc[2]] /\ game'.bricks[rc[1]][rc[2]]}
      under == {rc \in cells : /\ game.bricks[rc[1]][rc[2]]
                               /\ StrictOverlap(game'.ball_x, game'.ball_y, rc[1], rc[2])}
  IN  /\ born = {}
      /\ Cardinality(died) <= 1
      /\ died = {} => under = {}
      /\ \A rc \in died :
           /\ rc \in under
           /\ \A o \in under : rc[1] * COLS + rc[2] <= o[1] * COLS + o[2]

C8_OneBrickPerTick == [][phase = "Playing" => C8_Step]_vars

\* a tick has just destroyed the first brick of the session
C8_Witness ==
  /\ game.led_flash = LED_FLASH_TICKS
  /\ bricks_remaining(game) = ROWS * COLS - 1

\* a loop iteration that hands draw_frame a snapshot equal to the state
SameFrame == phase = "Playing" /\ prev = PrevOf(game')

\* C9 as claimed: draw_frame with a snapshot identical to the state issues
\* no draw operations.
C9_Original == [][SameFrame => drawn' = <<>>]_vars

\* C9 as amended (Spec): draw_frame with a snapshot identical to the state
\* issues exactly three operations, which repaint what is shown: the erase of
\* the ball rectangle, the paddle and the ball, all at the unchanged
\* positions; no paddle erase, no slot erase and no status-bar redraw.
C9_RepaintOnly ==
  [][SameFrame =>
       drawn' = << BallRect(game'.ball_x, game'.ball_y, "BLACK"),
                   PaddleRect(game'.paddle_x, "WHITE"),
                   BallRect(game'.ball_x, game'.ball_y, "WHITE") >>]_vars

\* the latest pass was a draw_frame that erased the ball where it still is
\* and drew nothing but paddle and ball
C9_Witness ==
  /\ phase = "Playing"
  /\ Len(drawn) = 3
  /\ drawn[1] = BallRect(game.ball_x, game.ball_y, "BLACK")
  /\ prev = PrevOf(game)

\* a tick in which the ball, horizontally centred on the bottom-row brick of
\* column 0 and vertically off its centre, destroys that brick
BottomRow == ROWS - 1
CentredHit ==
  /\ phase = "Playing"
  /\ game.bricks[BottomRow][0] /\ ~game'.bricks[BottomRow][0]
  /\ game'.ball_x + (BALL_SIZE \div 2) = CELL_X[1] + (CELL_W[1] \div 2)
  /\ game'.ball_y + (BALL_SIZE \div 2) # CELL_Y[ROWS] + (CELL_H[ROWS] \div 2)

OnlyCornerBrickDies ==
  \A rc \in RowIdx \X ColIdx :
    rc # <<BottomRow, 0>> => game'.bricks[rc[1]][rc[2]] = game.bricks[rc[1]][rc[2]]

\* C10 as claimed: only that brick is destroyed, the score rises by ROWS,
\* the vertical velocity flips and the horizontal one is unchanged.
C10_Original ==
  [][CentredHit =>
       /\ OnlyCornerBrickDies
       /\ game'.score = game.score + ROWS
       /\ game'.ball_dy = -game.ball_dy
       /\ game'.ball_dx = game.ball_dx]_vars

\* C10 as amended (SpecRally): only that brick is destroyed, the score rises
\* by 1 (ROWS minus the row index ROWS - 1 of the bottom row), the vertical
\* velocity flips and the horizontal one is unchanged.
C10_CentredBottomHit ==
  [][CentredHit =>
       /\ OnlyCornerBrickDies
       /\ game'.score = game.score + 1
       /\ game'.ball_dy = -game.ball_dy
       /\ game'.ball_dx = game.ball_dx]_vars

\* the tick just run destroyed the bottom-row brick of column 0 with the
\* ball centred on it
C10_Witness ==
  /\ ~game.bricks[BottomRow][0]
  /\ game.led_flash = LED_FLASH_TICKS
  /\ StrictOverlap(game.ball_x, game.ball_y, BottomRow, 0)
  /\ game.ball_x + (BALL_SIZE \div 2) = CELL_X[1] + (CELL_W[1] \div 2)
  /\ game.ball_y + (BALL_SIZE \div 2) # CELL_Y[ROWS] + (CELL_H[ROWS] \div 2)

\* the cells of the alive bricks of g
AliveCells(g) == {rc \in RowIdx \X ColIdx : g.bricks[rc[1]][rc[2]]}

\* the white pixels of a picture that shows the paddle and the ball of g whole
\* and nothing else in white
PaddleAndBall(g) ==
  DrawRuns(DrawRuns({}, PaddleRect(g.paddle_x, "WHITE")),
           BallRect(g.ball_x, g.ball_y, "WHITE"))

\* C11 as claimed: after every render pass of a play session the picture
\* equals the game state: every alive brick's rectangle is shown whole, no
\* pixel of a destroyed brick remains, and the white pixels are exactly the
\* paddle and the ball at their current positions (nothing left of the old
\* positions, nothing of the current ones overdrawn).
C11_PictureMatchesState ==
  phase \in {"Playing", "GameOver"} =>
    /\ display.full = AliveCells(game)
    /\ display.partial = {}
    /\ display.white = PaddleAndBall(game)

\* C12 (Spec): after every render pass of a play session the status bar shows
\* the current score and the current number of lives, and no black fill from
\* outside draw_hud (the erase of the old ball) has reached into the bar
\* since the bar was last drawn.
C12_StatusBarCurrent ==
  phase \in {"Playing", "GameOver"} =>
    /\ display.hud.text = format_u16(game.score)
    /\ display.hud.squares = 0 .. (game.lives - 1)
    /\ ~display.hud.erased

\* a pass that erased the old ball inside the status-bar rows and redrew the
\* bar for that reason alone: no life was lost and the ball is still falling
C12_Witness ==
  /\ phase = "Playing"
  /\ game.launched
  /\ game.lives = 3
  /\ Len(drawn) > 3
  /\ drawn[1] = BallRect(drawn[1].x, drawn[1].y, "BLACK")
  /\ drawn[1].y + BALL_SIZE > HUD_Y
  /\ drawn[Len(drawn)] = Fill(SquareX(2), HUD_Y + 2, 6, 6, "RED")
  /\ display.hud.text = format_u16(game.score)


PhaseOrder == {<<"Title", "Playing">>, <<"Playing", "GameOver">>, <<"GameOver", "Title">>}

FreshBreakout(g) ==
  /\ g.score = 0 /\ g.lives = 3
  /\ \A rc \in RowIdx \X ColIdx : g.bricks[rc[1]][rc[2]]
  /\ ~g.launched /\ ~g.game_over /\ g.led_flash = 0

FreshSnake(g) ==
  /\ g.score = 0 /\ ~g.game_over /\ Len(g.snake) = 4
  /\ g.direction = "Right" /\ g.next_direction = "Right"

C13_BreakoutStep ==
  /\ phase' # phase => <<phase, phase'>> \in PhaseOrder
  /\ (phase = "Title" /\ phase' = "Playing") => event' = "press_a" /\ FreshBreakout(game')
  /\ (phase = "GameOver" /\ phase' = "Title") => event' = "press_a"
  /\ (phase = "Playing" /\ phase' = "GameOver") => event' = "levels" /\ game'.game_over
  /\ (phase # "Playing" /\ game' # game) => phase' = "Playing" /\ event' = "press_a"

C13_SnakeStep ==
  /\ sphase' # sphase => <<sphase, sphase'>> \in PhaseOrder
  /\ (sphase = "Title" /\ sphase' = "Playing") => sevent' = "press_a" /\ FreshSnake(sgame')
  /\ (sphase = "GameOver" /\ sphase' = "Title") => sevent' = "press_a"
  /\ (sphase = "Playing" /\ sphase' = "GameOver") => sevent' = "levels" /\ sgame'.game_over
  /\ (sphase # "Playing" /\ sgame' # sgame) => sphase' = "Playing" /\ sevent' = "press_a"

\* C13 In both games the controller only moves Title -> Playing -> GameOver
\* -> Title; it leaves Title and GameOver only on a press of A, leaves Playing
\* only in an iteration whose tick left game_over set, changes the game state
\* outside Playing only by constructing a fresh one on entry to Playing.
C13_ControllerPhases == [][C13_BreakoutStep /\ C13_SnakeStep]_vars

\* both games have been through a whole session and are back on the title
\* screen, the finished game still in memory
C13_Witness ==
  /\ phase = "Title" /\ game.game_over /\ event = "press_a"
  /\ sphase = "Title" /\ sgame.game_over /\ sevent = "press_a"


OpsOf(ops) == {ops[i] : i \in 1 .. Len(ops)}

C14_Step ==
  /\ prev = PrevOf(game)
  /\ \E left \in BOOLEAN, right \in BOOLEAN, a \in BOOLEAN :
        game' = Tick(SampleButtons(game, left, right, a))
  /\ drawn'[1] = BallRect(game.ball_x, game.ball_y, "BLACK")
  /\ BallRect(game'.ball_x, game'.ball_y, "WHITE") \in OpsOf(drawn')
  /\ PaddleRect(game'.paddle_x, "WHITE") \in OpsOf(drawn')
  /\ prev' = PrevOf(game')
  /\ \A n \in BarCounts : leds'[n] = update_leds(leds[n], game', n)

\* C14 Every Breakout loop iteration samples the buttons, runs exactly one
\* tick, renders the ticked state against the snapshot, overwrites the
\* snapshot with the ticked state and updates the LEDs from it; the snapshot
\* a render pass starts from is the state the preceding pass rendered.
C14_LoopOrdering == [][phase = "Playing" => C14_Step]_vars

\* an iteration whose tick moved the ball into a brick has been rendered
C14_Witness ==
  /\ phase = "Playing" /\ event = "levels" /\ game.launched
  /\ game.led_flash = LED_FLASH_TICKS /\ game.score > 0
  /\ drawn[1] = BallRect(game.ball_x - game.ball_dx, drawn[1].y, "BLACK")
  /\ prev = PrevOf(game)


LitCount(bar) == Cardinality({i \in DOMAIN bar : bar[i] # OFF})

C15_Mapping(bank, g, n) ==
  IF g.game_over
  THEN /\ \A i \in 1 .. n : bank.left[i] = <<20, 0, 0>> /\ bank.right[i] = <<20, 0, 0>>
       /\ bank.other = <<20, 0, 0>>
  ELSE /\ LitCount(bank.left) + LitCount(bank.right) = Min(g.score, n)
       /\ LitCount(bank.left) - LitCount(bank.right) \in {-1, 0, 1}

\* C15 After a Snake LED update the whole bank is red when the game is over;
\* otherwise the number of lit LEDs is the score capped at the bar length and
\* the two bars show the same number of lit LEDs, up to rounding.
C15_SnakeLedMapping ==
  (sphase \in {"Playing", "GameOver"} /\ sevent = "levels") =>
    \A n \in BarCounts : C15_Mapping(sleds[n], sgame, n)


\* ceil(5 * remaining / (ROWS * COLS)): the least k with k * ROWS * COLS >= 5 * remaining
CeilFifths(remaining) ==
  CHOOSE k \in 0 .. 5 :
    /\ k * ROWS * COLS >= 5 * remaining
    /\ k > 0 => (k - 1) * ROWS * COLS < 5 * remaining

Grey(level) == <<level, level, level>>

LitPrefix(bar, k) == \A i \in DOMAIN bar : (bar[i] # OFF) <=> (i <= k)

C16_Mapping(bank, g, n) ==
  IF g.led_flash > 0
  THEN /\ \A i \in 1 .. n : bank.left[i] = Grey(4 * g.led_flash)
                              /\ bank.right[i] = Grey(4 * g.led_flash)
       /\ bank.other = Grey(4 * g.led_flash)
  ELSE /\ LitPrefix(bank.left, Min(CeilFifths(bricks_remaining(g)), n))
       /\ bank.right = bank.left
       /\ (LitCount(bank.left) = 0) <=> (bricks_remaining(g) = 0)

C16_Step ==
  /\ \A n \in BarCounts : C16_Mapping(leds'[n], game', n)
  /\ CeilFifths(bricks_remaining(game')) <= CeilFifths(bricks_remaining(game))

\* C16 After every Breakout LED update: while led_flash > 0 all LEDs are grey
\* at level 4 * led_flash; otherwise both bars show the same lit count
\* ceil(5 * bricks_remaining / (ROWS * COLS)) capped at the bar length, which
\* is 0 exactly when no brick is alive and never increases during a session.
C16_BreakoutLedMapping == [][phase = "Playing" => C16_Step]_vars

\* the bars have dropped to three lit LEDs after a flash has run out
C16_Witness ==
  /\ phase = "Playing" /\ event = "levels" /\ game.led_flash = 0
  /\ bricks_remaining(game) <= 63
  /\ LitCount(leds[MaxBarCount].left) = 3


RECURSIVE SumRows(_, _)
SumRows(f, row) == IF row = ROWS THEN 0 ELSE f[row] + SumRows(f, row + 1)

\* 21 bricks in each of the rows worth 5, 4, 3, 2, 1
TotalValue == SumRows([row \in RowIdx |-> COLS * (ROWS - row)], 0)

DeadValue(g) ==
  SumRows([row \in RowIdx |->
             (ROWS - row) * Cardinality({col \in ColIdx : ~g.bricks[row][col]})], 0)

C17_Step ==
  LET died == {rc \in RowIdx \X ColIdx :
                 game.bricks[rc[1]][rc[2]] /\ ~game'.bricks[rc[1]][rc[2]]}
  IN  /\ died = {} => game'.score = game.score
      /\ \A rc \in died : game'.score = game.score + (ROWS - rc[1])
      /\ game'.score >= game.score
      /\ game'.score = DeadValue(game')
      /\ game'.score <= TotalValue /\ TotalValue = 315 /\ TotalValue < U16

\* C17 The Breakout score changes only in a tick that destroys a brick, by
\* ROWS minus the brick's row index; it never decreases and never exceeds
\* the sum of all brick values (315), so the u16 never wraps.
C17_Scoring == [][phase = "Playing" => C17_Step]_vars

\* the last brick has been destroyed and the score is the full 315
C17_Witness ==
  /\ phase = "GameOver" /\ event = "levels"
  /\ bricks_remaining(game) = 0 /\ game.score = 315


Proposed(head, dir) ==
  [x |-> head.x + (IF dir = "Right" THEN 1 ELSE IF dir = "Left" THEN -1 ELSE 0),
   y |-> head.y + (IF dir = "Down" THEN 1 ELSE IF dir = "Up" THEN -1 ELSE 0)]

OffGrid(p) == ~(p.x \in 0 .. GRID_W - 1 /\ p.y \in 0 .. GRID_H - 1)

OnBody(body, p) == \E i \in 1 .. Len(body) : body[i] = p

C18_Step ==
  LET p == Proposed(sgame.snake[1], sgame'.direction)
  IN  (OffGrid(p) \/ OnBody(sgame.snake, p)) =>
        /\ sgame'.game_over
        /\ sgame'.snake = sgame.snake
        /\ sgame'.food = sgame.food
        /\ sgame'.score = sgame.score
        /\ sgame'.rng = sgame.rng

\* C18 A Snake tick whose proposed head is outside the grid or on any
\* segment of the body as it is before the move, the tail included, sets
\* game_over and leaves body, food, score and generator state unchanged.
C18_InvalidStepEndsGame == [][sphase = "Playing" => C18_Step]_vars

\* the game ended on a step into the cell the tail was about to leave
C18_Witness ==
  /\ sphase = "GameOver" /\ sgame.game_over /\ sevent = "levels"
  /\ Proposed(sgame.snake[1], sgame.direction) = sgame.snake[Len(sgame.snake)]


C19_Step ==
  (game.launched /\ game.ball_y + game.ball_dy + BALL_SIZE >= H) =>
    /\ game'.lives = game.lives - 1
    /\ game'.bricks = game.bricks
    /\ game'.score = game.score
    /\ game'.game_over <=> (game'.lives = 0)
    /\ IF game'.lives = 0
       THEN /\ game'.ball_y = game.ball_y + game.ball_dy
            /\ game'.ball_dy = game.ball_dy
            /\ game'.launched
       ELSE /\ game'.ball_x = game'.paddle_x + (PADDLE_W \div 2)
            /\ game'.ball_y = PADDLE_Y - BALL_SIZE - 1
            /\ game'.ball_dx = 2 /\ game'.ball_dy = -2
            /\ ~game'.launched

\* C19 A Breakout tick that leaves the ball's bottom edge at or below the
\* display bottom costs one life and does no paddle or brick processing
\* (bricks and score unchanged); with no life left it sets game_over, and
\* otherwise puts the ball back on the paddle, unlaunched, with velocity
\* (2, -2).
C19_BottomLoss == [][phase = "Playing" => C19_Step]_vars

\* the pass that followed a lost ball: the ball is erased at the bottom and
\* waits on the moved paddle
C19_Witness ==
  /\ phase = "Playing" /\ event = "levels" /\ game.lives = 2 /\ ~game.launched
  /\ game.paddle_x # (W - PADDLE_W) \div 2
  /\ drawn[1].y + BALL_SIZE > HUD_Y
  /\ game.ball_x = game.paddle_x + (PADDLE_W \div 2)


C20_Step ==
  /\ (event' = "tick" /\ (game.game_over \/ ~game.launched)) => game' = game
  /\ (sevent' = "tick" /\ sgame.game_over) => sgame' = sgame

\* C20 A tick on an inactive state changes nothing: Breakout's tick leaves
\* every field as it was when the game is over or the ball is not launched,
\* Snake's tick when the game is over.
C20_IdleTickNoOp == [][C20_Step]_vars

\* tick has been called on both finished games
C20_Witness ==
  /\ event = "tick" /\ game.game_over /\ game.launched
  /\ sevent = "tick" /\ sgame.game_over


Dist(a, b) == IF a >= b THEN a - b ELSE b - a

\* distances between the centre of a ball at (bx, by) and the centre of a cell
CentreDx(bx, rc) == Dist(bx + (BALL_SIZE \div 2), CELL_X[rc[2] + 1] + (CELL_W[rc[2] + 1] \div 2))
CentreDy(by, rc) == Dist(by + (BALL_SIZE \div 2), CELL_Y[rc[1] + 1] + (CELL_H[rc[1] + 1] \div 2))

\* the velocity the ball of state g carries into the brick scan of the next
\* tick: its own, turned inward where the integrated position meets a wall
IncomingDx(g) ==
  IF g.ball_x + g.ball_dx + BALL_SIZE >= W THEN -Dist(g.ball_dx, 0)
  ELSE IF g.ball_x + g.ball_dx <= 0 THEN Dist(g.ball_dx, 0)
  ELSE g.ball_dx
IncomingDy(g) == IF g.ball_y + g.ball_dy <= 0 THEN Dist(g.ball_dy, 0) ELSE g.ball_dy

C21_Step ==
  \A rc \in RowIdx \X ColIdx :
    (game.bricks[rc[1]][rc[2]] /\ ~game'.bricks[rc[1]][rc[2]]) =>
      IF CentreDx(game'.ball_x, rc) > CentreDy(game'.ball_y, rc)
      THEN game'.ball_dx = -IncomingDx(game) /\ game'.ball_dy = IncomingDy(game)
      ELSE game'.ball_dx = IncomingDx(game) /\ game'.ball_dy = -IncomingDy(game)

\* C21 On a brick hit exactly one velocity component is negated: the
\* horizontal one if the horizontal distance between ball centre and brick
\* centre exceeds the vertical one, otherwise (equal distances included) the
\* vertical one; the other component is unchanged.
C21_BounceAxis == [][phase = "Playing" => C21_Step]_vars

\* the brick whose slot the last pass erased was hit at equal distances
C21_Witness ==
  /\ phase = "Playing" /\ event = "levels" /\ game.led_flash = LED_FLASH_TICKS
  /\ \E rc \in RowIdx \X ColIdx :
       /\ ~game.bricks[rc[1]][rc[2]]
       /\ Fill(ERASE_X[rc[2] + 1], ERASE_Y[rc[1] + 1], ERASE_W[rc[2] + 1],
               ERASE_H[rc[1] + 1], "BLACK") \in OpsOf(drawn)
       /\ CentreDx(game.ball_x, rc) = CentreDy(game.ball_y, rc)


\* the tick about to run finds the downward-moving ball on the paddle: the
\* ball's bottom edge within the paddle's rows, the ball overlapping the
\* paddle's columns (ball position integrated, paddle as sampled)
PaddleContact ==
  /\ phase = "Playing" /\ game.launched
  /\ IncomingDy(game) > 0
  /\ game.ball_y + game.ball_dy + BALL_SIZE \in PADDLE_Y .. (PADDLE_Y + PADDLE_H)
  /\ game'.ball_x + BALL_SIZE > game'.paddle_x
  /\ game'.ball_x < game'.paddle_x + PADDLE_W

\* the same position with the ball moving upward
PaddleZoneRising ==
  /\ phase = "Playing" /\ game.launched
  /\ IncomingDy(game) < 0
  /\ game.ball_y + game.ball_dy + BALL_SIZE \in PADDLE_Y .. (PADDLE_Y + PADDLE_H)
  /\ game'.ball_x + BALL_SIZE > game'.paddle_x
  /\ game'.ball_x < game'.paddle_x + PADDLE_W

\* offset of the ball centre from the paddle's left edge
ContactOffset == game'.ball_x + (BALL_SIZE \div 2) - game'.paddle_x

KeepSign(dx) == IF dx > 0 THEN 2 ELSE -2

\* C22 as claimed, the thirds being thirds of the paddle width: offsets
\* below PADDLE_W / 3 give -3, offsets above 2 * PADDLE_W / 3 give +3.
C22_Original ==
  [][/\ PaddleContact =>
          /\ game'.ball_dy = -IncomingDy(game)
          /\ game'.ball_dx = IF 3 * ContactOffset < PADDLE_W THEN -3
                             ELSE IF 3 * ContactOffset > 2 * PADDLE_W THEN 3
                             ELSE KeepSign(IncomingDx(game))
     /\ PaddleZoneRising =>
          /\ game'.ball_dy = IncomingDy(game)
          /\ game'.ball_dx = IncomingDx(game)]_vars

\* C22 as amended (SpecPaddle): the paddle test is applied only when the ball
\* moves downward; on contact the vertical velocity becomes negative with
\* unchanged magnitude, and the horizontal velocity becomes -3 if the ball
\* centre offset from the paddle's left edge is below PADDLE_W / 3 in
\* integer arithmetic (13), +3 if it is above twice that (26), and otherwise
\* +2 or -2 keeping the previous horizontal sign.
C22_PaddleDeflection ==
  [][/\ PaddleContact =>
          /\ game'.ball_dy = -IncomingDy(game)
          /\ game'.ball_dx = IF ContactOffset < PADDLE_W \div 3 THEN -3
                             ELSE IF ContactOffset > 2 * (PADDLE_W \div 3) THEN 3
                             ELSE KeepSign(IncomingDx(game))
     /\ PaddleZoneRising =>
          /\ game'.ball_dy = IncomingDy(game)
          /\ game'.ball_dx = IncomingDx(game)]_vars

\* the tick just run brought the ball down and leftward onto the paddle with
\* its centre 13 px from the paddle's left edge and sent it up at the
\* moderate speed
C22_Witness ==
  /\ phase = "Playing" /\ event = "levels" /\ game.launched
  /\ drawn[1].y < game.ball_y /\ drawn[1].x = game.ball_x + 3
  /\ game.ball_y + BALL_SIZE \in PADDLE_Y .. (PADDLE_Y + PADDLE_H)
  /\ game.ball_x + (BALL_SIZE \div 2) - game.paddle_x = PADDLE_W \div 3
  /\ game.ball_dy < 0 /\ game.ball_dx = -2


\* C23 The loop of spawn_food draws every cell of the grid sooner or later:
\* run on any body that leaves at least one cell free it reaches a free
\* candidate and returns; only a body covering the whole grid keeps it
\* running.
C23_FoodLoopTerminates == <>(fseen = GridCells)

\* the loop has had to run past the first thousand candidates before the
\* last cell of the grid came up
C23_Witness == fseen = GridCells /\ fdraws > 1000


\* the cells, alive or not, that a ball at (bx, by) strictly overlaps
CellsUnder(bx, by) ==
  {rc \in RowIdx \X ColIdx : StrictOverlap(bx, by, rc[1], rc[2])}

\* C24 After every tick the ball rectangle strictly overlaps no brick that
\* is still alive, and it never overlaps two cells at once.
C24_NoAliveBrickUnderBall ==
  /\ \A rc \in CellsUnder(game.ball_x, game.ball_y) : ~game.bricks[rc[1]][rc[2]]
  /\ Cardinality(CellsUnder(game.ball_x, game.ball_y)) <= 1

\* the tick just run destroyed the brick under the ball, and the brick in
\* the next column of the same row still stands
C24_Witness ==
  /\ phase = "Playing" /\ event = "levels" /\ game.led_flash = LED_FLASH_TICKS
  /\ \E rc \in CellsUnder(game.ball_x, game.ball_y) :
       /\ rc[2] + 1 < COLS
       /\ game.bricks[rc[1]][rc[2] + 1]
       /\ game.ball_x + BALL_SIZE = CELL_X[rc[2] + 2] - 1


NoBrickAlive(g) == \A rc \in RowIdx \X ColIdx : ~g.bricks[rc[1]][rc[2]]

\* C25 In every state game_over holds exactly when no life is left or no
\* brick is alive, the two never hold together, and the banner shown for a
\* finished game is the win banner exactly when lives are left.
C25_GameOverCauses ==
  /\ game.game_over <=> (game.lives = 0 \/ NoBrickAlive(game))
  /\ ~(game.lives = 0 /\ NoBrickAlive(game))
  /\ phase = "GameOver" =>
       /\ game.game_over
       /\ screen \in {"win", "lose"}
       /\ (screen = "win") <=> (game.lives > 0)

\* the field has been cleared with lives to spare and the win banner is up
C25_Witness ==
  /\ phase = "GameOver" /\ screen = "win"
  /\ NoBrickAlive(game) /\ game.lives > 0 /\ game.game_over


FlashLive(g) ==
  /\ g.led_flash \in 0 .. LED_FLASH_TICKS
  /\ (g.led_flash > 0 /\ ~g.game_over) => g.launched

C26_Step ==
  LET hit == \E rc \in RowIdx \X ColIdx :
               game.bricks[rc[1]][rc[2]] /\ ~game'.bricks[rc[1]][rc[2]]
  IN  /\ FlashLive(game) /\ FlashLive(game')
      /\ hit => game'.led_flash = LED_FLASH_TICKS
      /\ (~hit /\ game.led_flash > 0) => game'.led_flash = game.led_flash - 1
      /\ (~hit /\ game.led_flash = 0) => game'.led_flash = 0

\* C26 The LED flash is never frozen during play: led_flash never exceeds
\* LED_FLASH_TICKS, a running flash in an unfinished game finds the ball
\* launched, and every loop iteration either hits a brick, which arms the
\* flash at LED_FLASH_TICKS, or takes one off a running flash, which so
\* reaches 0 LED_FLASH_TICKS ticks after the last hit.
C26_FlashRunsDown == [][phase = "Playing" => C26_Step]_vars

\* a flash armed by a brick hit has run down to its last tick
C26_Witness ==
  /\ phase = "Playing" /\ event = "levels" /\ game.launched
  /\ game.led_flash = 1 /\ game.score > 0

=============================================================================
